---- MODULE Spec2Model ----
(***************************************************************************)
(* Verification model of the email-corpus tooling:                         *)
(*   - rotating_baseline.py : the rotating coverage runner (state file,    *)
(*     batch assembly, fingerprint tracking, persistence, batch output);   *)
(*   - scrub_personal_emails.py / scrub_enron_pii.py : the PII scrubbers.  *)
(***************************************************************************)
EXTENDS Integers, Sequences, FiniteSets, TLC

(***************************************************************************)
(* Bounds of the model.                                                    *)
(***************************************************************************)
\* emails per rotation batch (the program uses 5000; scaled down)
BATCH_SIZE == 2
\* invocations of the runner that are explored
MaxRotations == 12
\* invocations explored when invocations can be interrupted
MaxKillRotations == 2
\* largest number of records in one eml directory or mbox file
MaxSrcSize == 2
\* largest len(enron_data) // 10 explored
MaxEnronSection == 2
\* fragments an input text of a scrubber is made of
MaxFragments == 2
\* times scrub_pii is applied in a row
MaxPasses == 2

(***************************************************************************)
(* Configuration of rotating_baseline.py.                                  *)
(***************************************************************************)
sources_order ==
  << <<"eml", "Inbox-001">>,
     <<"eml", "opened_emails">>,
     <<"mbox", "Starred2.mbox">>,
     <<"mbox", "Starred3.mbox">>,
     <<"eml", "starred_emails">>,
     <<"mbox", "Opened2.mbox">>,
     <<"mbox", "Opened3.mbox">>,
     <<"mbox", "Inbox-001.mbox">>,
     <<"mbox", "Sent-003.mbox">>,
     <<"mbox", "Inbox-002.mbox">>,
     <<"enron", "enron">> >>

NumSources == Len(sources_order)

\* source_key = f"{source_type}_{source_name}"
source_key(s) == s[1] \o "_" \o s[2]

SourceKeys == {source_key(sources_order[i]) : i \in 1..NumSources}

\* the sources that have an entry in SOURCES['eml_directories'] / ['mbox_files']
FileSources == {sources_order[i] : i \in {j \in 1..NumSources : sources_order[j][1] # "enron"}}

\* The file sources whose presence and content vary from one explored
\* installation to the next; every other eml directory and mbox file is
\* absent from the disk (config['path'].exists() is false).
OnDisk == { <<"eml", "Inbox-001">>, <<"mbox", "Inbox-002.mbox">> }

\* a key of source_progress that was never assigned
Missing == -1

\* len(enron_data) of an enron file that exists but cannot be opened or decoded
Unreadable == -2

\* the number of records returned by a source whose read raised an exception
Raised == -1

\* the keys json.dump writes for the state, in order
StateFields == <<"rotation_number", "processed_hashes", "source_progress",
                 "aggregate_metrics", "run_history">>

NumFields == Len(StateFields)

VARIABLES
  disk,        \* file sources: key -> [exists, items], items[i] = TRUE iff record i parses
  enron_len,   \* len(enron_data), or Missing when the enron file does not exist
  file,        \* STATE_FILE: [exists, written, data]
  pc,          \* position of the running invocation of main(), "idle" between invocations
  exit,        \* how the last invocation ended: "none", "ok", "killed", "error"
  killedAt,    \* pc at which the last interrupted invocation was interrupted
  loaded,      \* what load_state() returned to the running / last invocation
  st,          \* the in-memory state dict of main()
  batch,       \* the batch list of main()
  pulled,      \* per source: what get_next_rotation_batch asked for and consumed
  new_emails,  \* the new_emails counter of main()
  outputs      \* rotation_batches/rotation_NNN.json files: rotation -> written batch

rotVars == <<disk, enron_len, file, pc, exit, killedAt, loaded, st, batch, pulled,
             new_emails, outputs>>

VARIABLES
  scrubber,    \* which scrub_pii the run uses: "personal" or "enron"
  text_in,     \* the text handed to the first pass
  results,     \* the text returned by each pass so far
  counts,      \* the counts dict returned by each pass so far
  email_cache, \* email_cache of scrub_personal_emails.py
  name_cache   \* name_cache of scrub_personal_emails.py

scrubVars == <<scrubber, text_in, results, counts, email_cache, name_cache>>

VARIABLES
  fields,      \* the texts a scrubbing run hands to scrub_pii one after the other
  pcB,         \* position of a second invocation of main() on the same state file
  exitB,       \* how the second invocation ended: "none", "ok", "error"
  loadedB,     \* what load_state() returned to the second invocation
  stB,         \* the in-memory state dict of the second invocation
  batchB,      \* the batch list of the second invocation
  new_emailsB  \* the new_emails counter of the second invocation

secondVars == <<pcB, exitB, loadedB, stB, batchB, new_emailsB>>

VARIABLES
  rows,            \* the rows of the input CSV of scrub_enron_pii.py
  chunk_size,      \* args.chunk_size
  args_limit,      \* args.limit, 0 when --limit is not given
  epc,             \* position of main() of scrub_enron_pii.py
  rows_read,       \* rows the csv reader has handed out
  chunk,           \* the chunk list of main()
  first_chunk,     \* the first_chunk flag of main()
  total_processed, \* the total_processed counter of main()
  stats,           \* the module-level stats dict
  out_file         \* what has been written to the output file, piece by piece

enronVars == <<rows, chunk_size, args_limit, epc, rows_read, chunk, first_chunk,
               total_processed, stats, out_file>>

\* what the first invocation of main() leaves alone
nonRotVars == <<scrubVars, fields, secondVars, enronVars>>

\* what a call of scrub_pii leaves alone
nonScrubVars == <<rotVars, fields, secondVars, enronVars>>

\* what a run of scrub_enron_pii.py leaves alone
nonEnronVars == <<rotVars, scrubVars, fields, secondVars>>

vars == <<rotVars, scrubVars, fields, secondVars, enronVars>>

(***************************************************************************)
(* Helpers for Python list semantics.                                      *)
(***************************************************************************)
Min(a, b) == IF a <= b THEN a ELSE b

\* seq[a:b] for 0 <= a, 0 <= b
Slice(seq, a, b) ==
  IF a >= Min(b, Len(seq)) THEN <<>> ELSE SubSeq(seq, a + 1, Min(b, Len(seq)))

\* seq[:n]
Prefix(seq, n) == Slice(seq, 0, n)

\* list(range(n)), 0-based positions of a list of length n
Range0(n) == [i \in 1..n |-> i - 1]

(***************************************************************************)
(* The corpus on disk.                                                     *)
(***************************************************************************)
\* the message stored at 0-based position i of a source; the eml export and
\* the mbox export hold the same mailbox, the enron corpus is disjoint from both
Content(source_type, i) ==
  CASE source_type = "eml"   -> i + 1
    [] source_type = "mbox"  -> i + 1
    [] source_type = "enron" -> 100 + i

\* the dict built by parse_eml / parse_mbox_batch / stored in the enron json
EmailOf(c) == [subject |-> <<c>>, from |-> <<c>>, body |-> <<c, c>>]

\* a record that is left without the name of its source
Tagged_unknown(email, source_name) ==
  [subject |-> email.subject, from |-> email.from, body |-> email.body,
   _source |-> "unknown"]

Tagged(email, source_name) ==
  [subject |-> email.subject, from |-> email.from, body |-> email.body,
   _source |-> source_name]

\* sequences of parse outcomes of the records of one source
Shapes == UNION {[1..n -> BOOLEAN] : n \in 0..MaxSrcSize}

AbsentSource == [exists |-> FALSE, items |-> <<>>]

\* lengths of the enron json array that are explored
EnronLens == {Missing} \cup {10 * k : k \in 0..MaxEnronSection}

\* those whose sections hold at most one record: random.sample has one outcome
EnronLensFixed == {n \in EnronLens : n \div 10 <= 1}

(***************************************************************************)
(* load_state / save_state / get_email_hash.                               *)
(***************************************************************************)
DefaultState ==
  [rotation_number   |-> 0,
   processed_hashes  |-> {},
   source_progress   |-> [k \in SourceKeys |-> Missing],
   aggregate_metrics |-> [total_processed |-> 0, intents |-> {},
                          confidence_sum |-> 0, fallbacks |-> 0],
   run_history       |-> <<>>]

NoFile == [exists |-> FALSE, content |-> <<>>]

\* the value json.dump writes for one key of the state
FieldValue(state, k) ==
  CASE k = 1 -> state.rotation_number
    [] k = 2 -> state.processed_hashes
    [] k = 3 -> state.source_progress
    [] k = 4 -> state.aggregate_metrics
    [] k = 5 -> state.run_history

\* json.load succeeds only on a complete document
Parses(f) == Len(f.content) = NumFields

load_state(f) ==
  IF f.exists
  THEN [rotation_number   |-> f.content[1],
        processed_hashes  |-> f.content[2],
        source_progress   |-> f.content[3],
        aggregate_metrics |-> f.content[4],
        run_history       |-> f.content[5]]
  ELSE DefaultState

SUBJECT_PREFIX == 50
BODY_PREFIX == 100

\* md5 of "subject[:50]|from|body[:100]", taken as free of collisions
get_email_hash(email) ==
  <<Prefix(email.subject, SUBJECT_PREFIX), email.from, Prefix(email.body, BODY_PREFIX)>>

\* state['source_progress'].get(source_key, 0)
Progress(progress, key) == IF progress[key] = Missing THEN 0 ELSE progress[key]

(***************************************************************************)
(* get_next_rotation_batch and the readers it calls.                       *)
(***************************************************************************)
\* start_idx computed from the rotation number before the increment
start_idx_stale(rotation) == (rotation - 1) % NumSources

\* start_idx computed with the modulus of the enron sections
start_idx_mod10(rotation) == rotation % 10

\* start_idx = rotation % len(sources_order)
start_idx(rotation) == rotation % NumSources

\* sources_order[start_idx:] + sources_order[:start_idx]
rotated_sources(rotation) ==
  Slice(sources_order, start_idx(rotation), NumSources)
    \o Slice(sources_order, 0, start_idx(rotation))

\* an offset that restarts from the count of this rotation
Advance_reset(source_offset, count) == count

\* state['source_progress'][source_key] = source_offset + len(...)
Advance(source_offset, count) == source_offset + count

\* parse_eml over the listed files: the files that parse, in order
RECURSIVE ParseEmlFiles(_, _)
ParseEmlFiles(items, positions) ==
  IF positions = <<>> THEN <<>>
  ELSE LET i == Head(positions)
           rest == ParseEmlFiles(items, Tail(positions))
       IN  IF items[i + 1] THEN <<EmailOf(Content("eml", i))>> \o rest ELSE rest

\* the loop of parse_mbox_batch from message i (0-based) on
RECURSIVE MboxLoop(_, _, _, _, _)
MboxLoop(items, i, offset, limit, emails) ==
  IF i >= Len(items) THEN emails
  ELSE IF i < offset THEN MboxLoop(items, i + 1, offset, limit, emails)
  ELSE IF Len(emails) >= limit THEN emails
  ELSE IF items[i + 1]
       THEN MboxLoop(items, i + 1, offset, limit, Append(emails, EmailOf(Content("mbox", i))))
       ELSE MboxLoop(items, i + 1, offset, limit, emails)

parse_mbox_batch(items, offset, limit) == MboxLoop(items, 0, offset, limit, <<>>)

\* a sample that takes the whole section whatever k is
RandomSample_all(section, k, order) == [j \in 1..Len(section) |-> section[order[j]]]

\* random.sample(section, k): the first k picks of a random order of the section
RandomSample(section, k, order) == [j \in 1..k |-> section[order[j]]]

TagAll(emails, source_name) == [j \in 1..Len(emails) |-> Tagged(emails[j], source_name)]

\* one iteration of the for loop over rotated_sources, for a source that is visited
\* with emails_needed > 0; acc = [batch, progress, needed, pulled]
PullSource(acc, source, rotation, files, enron, order) ==
  LET source_type == source[1]
      source_name == source[2]
      key == source_key(source)
      source_offset == Progress(acc.progress, key)
      emails_needed == acc.needed
      log(consumed, returned) ==
        Append(acc.pulled, [source |-> source, offset |-> source_offset,
                            requested |-> emails_needed, advanced |-> consumed,
                            returned |-> returned])
  IN
  CASE source_type = "eml" ->
         IF files[key].exists
         THEN LET listing == Range0(Len(files[key].items))
                  eml_files == Slice(listing, source_offset, source_offset + emails_needed)
                  emails == ParseEmlFiles(files[key].items, eml_files)
              IN  [batch |-> acc.batch \o TagAll(emails, source_name),
                   progress |-> [acc.progress EXCEPT ![key] = Advance(source_offset, Len(eml_files))],
                   needed |-> emails_needed - Len(eml_files),
                   pulled |-> log(Len(eml_files), Len(emails))]
         ELSE [acc EXCEPT !.pulled = log(0, 0)]
    [] source_type = "mbox" ->
         IF files[key].exists
         THEN LET mbox_emails == parse_mbox_batch(files[key].items, source_offset, emails_needed)
              IN  [batch |-> acc.batch \o TagAll(mbox_emails, source_name),
                   progress |-> [acc.progress EXCEPT ![key] = Advance(source_offset, Len(mbox_emails))],
                   needed |-> emails_needed - Len(mbox_emails),
                   pulled |-> log(Len(mbox_emails), Len(mbox_emails))]
         ELSE [acc EXCEPT !.pulled = log(0, 0)]
    [] source_type = "enron" ->
         IF enron = Unreadable
         THEN [acc EXCEPT !.pulled = log(0, Raised)]
         ELSE IF enron # Missing
         THEN LET section_size == enron \div 10
                  section_start == (rotation % 10) * section_size
                  section == Slice(Range0(enron), section_start, section_start + section_size)
                  picked == RandomSample(section, Min(emails_needed, Len(section)), order)
                  sample == [j \in 1..Len(picked) |-> EmailOf(Content("enron", picked[j]))]
              IN  [batch |-> acc.batch \o TagAll(sample, "enron"),
                   progress |-> acc.progress,
                   needed |-> emails_needed - Len(sample),
                   pulled |-> log(0, Len(sample))]
         ELSE [acc EXCEPT !.pulled = log(0, 0)]

\* open() or json.load() of the enron file raised: the exception leaves the loop
HasRaised(acc) == acc.pulled # <<>> /\ acc.pulled[Len(acc.pulled)].returned = Raised

RECURSIVE PullLoop(_, _, _, _, _, _)
PullLoop(acc, todo, rotation, files, enron, order) ==
  IF todo = <<>> \/ acc.needed <= 0 \/ HasRaised(acc) THEN acc
  ELSE PullLoop(PullSource(acc, Head(todo), rotation, files, enron, order),
                Tail(todo), rotation, files, enron, order)

\* returns the batch together with the state['source_progress'] it leaves behind
get_next_rotation_batch(state, batch_size, files, enron, order) ==
  LET rotation == state.rotation_number
  IN  PullLoop([batch |-> <<>>, progress |-> state.source_progress,
                needed |-> batch_size, pulled |-> <<>>],
               rotated_sources(rotation), rotation, files, enron, order)

\* every record of the batch counted as new
IsNew_always(hash_val, hashes) == TRUE

\* if hash_val not in state['processed_hashes']
IsNew(hash_val, hashes) == hash_val \notin hashes

\* the loop of main() that tracks unique emails; acc = [hashes, new_emails]
RECURSIVE TrackUnique(_, _)
TrackUnique(emails, acc) ==
  IF emails = <<>> THEN acc
  ELSE LET hash_val == get_email_hash(Head(emails))
       IN  IF IsNew(hash_val, acc.hashes)
           THEN TrackUnique(Tail(emails), [hashes |-> acc.hashes \cup {hash_val},
                                           new_emails |-> acc.new_emails + 1])
           ELSE TrackUnique(Tail(emails), acc)

(***************************************************************************)
(* main() of rotating_baseline.py, one action per step; an invocation can  *)
(* be interrupted (killed) between any two steps.                          *)
(***************************************************************************)
\* scrub_pii applied to a text field that this part of the model keeps opaque
Scrubbed(text) == <<"scrub_pii", text>>

scrubbed_batch(emails) ==
  [j \in 1..Len(emails) |->
     [subject |-> Scrubbed(emails[j].subject),
      from    |-> Scrubbed(emails[j].from),
      body    |-> Scrubbed(emails[j].body),
      source  |-> emails[j]._source]]

\* the local variables of an invocation that is not running
Forget ==
  /\ st' = DefaultState
  /\ batch' = <<>>
  /\ pulled' = <<>>
  /\ new_emails' = 0

\* no second invocation
SecondAtRest ==
  /\ pcB = "idle"
  /\ exitB = "none"
  /\ loadedB = DefaultState
  /\ stB = DefaultState
  /\ batchB = <<>>
  /\ new_emailsB = 0

\* the stats dict of scrub_enron_pii.py as the module creates it
DefaultStats ==
  [total_rows |-> 0, processed_emails |-> 0, parse_errors |-> 0,
   pii_scrubbed |-> [emails |-> 0, phones |-> 0, credit_cards |-> 0, ssns |-> 0, names |-> 0],
   missing_subject |-> 0, missing_from |-> 0, empty_body |-> 0]

\* main() of scrub_enron_pii.py before its first statement
EnronLocals ==
  /\ rows_read = 0
  /\ chunk = <<>>
  /\ first_chunk = TRUE
  /\ total_processed = 0
  /\ stats = DefaultStats
  /\ out_file = <<>>

\* scrub_enron_pii.py is not run
EnronAtRest ==
  /\ rows = <<>>
  /\ chunk_size = 1
  /\ args_limit = 0
  /\ epc = "off"
  /\ EnronLocals

\* no scrubber run in progress
ScrubAtRest ==
  /\ scrubber = "personal"
  /\ text_in = <<>>
  /\ results = <<>>
  /\ counts = <<>>
  /\ email_cache = {}
  /\ name_cache = {}
  /\ fields = <<>>

InitRotation(lens) ==
  /\ \E e \in [OnDisk -> {AbsentSource} \cup {[exists |-> TRUE, items |-> sh] : sh \in Shapes}] :
       disk = [k \in SourceKeys |->
                 IF \E s \in OnDisk : source_key(s) = k
                 THEN e[CHOOSE s \in OnDisk : source_key(s) = k]
                 ELSE AbsentSource]
  /\ enron_len \in lens
  /\ file = NoFile
  /\ pc = "idle"
  /\ exit = "none"
  /\ killedAt = "none"
  /\ loaded = DefaultState
  /\ st = DefaultState
  /\ batch = <<>>
  /\ pulled = <<>>
  /\ new_emails = 0
  /\ outputs = {}
  /\ ScrubAtRest
  /\ SecondAtRest
  /\ EnronAtRest

\* an invocation that counts itself twice
Load_twice ==
  /\ pc = "idle"
  /\ file.exists => Parses(file)
  /\ load_state(file).rotation_number < MaxRotations
  /\ loaded' = load_state(file)
  /\ st' = [load_state(file) EXCEPT !.rotation_number = @ + 2]
  /\ pc' = "loaded"
  /\ exit' = "none"
  /\ killedAt' = "none"
  /\ batch' = <<>>
  /\ pulled' = <<>>
  /\ new_emails' = 0
  /\ UNCHANGED <<disk, enron_len, file, outputs>>
  /\ UNCHANGED nonRotVars

\* state = load_state(); state['rotation_number'] += 1
Load ==
  /\ pc = "idle"
  /\ file.exists => Parses(file)
  /\ load_state(file).rotation_number < MaxRotations
  /\ loaded' = load_state(file)
  /\ st' = [load_state(file) EXCEPT !.rotation_number = @ + 1]
  /\ pc' = "loaded"
  /\ exit' = "none"
  /\ killedAt' = "none"
  /\ batch' = <<>>
  /\ pulled' = <<>>
  /\ new_emails' = 0
  /\ UNCHANGED <<disk, enron_len, file, outputs>>
  /\ UNCHANGED nonRotVars

\* json.load raises on an empty or truncated state file: the invocation dies at once
LoadFail ==
  /\ pc = "idle"
  /\ file.exists /\ ~Parses(file)
  /\ exit' = "error"
  /\ killedAt' = "none"
  /\ UNCHANGED <<disk, enron_len, file, pc, loaded, st, batch, pulled, new_emails, outputs>>
  /\ UNCHANGED nonRotVars

\* batch = get_next_rotation_batch(state, BATCH_SIZE)
GetBatch ==
  /\ pc = "loaded"
  /\ \E order \in Permutations(1..(IF enron_len = Missing THEN 0 ELSE enron_len \div 10)) :
       LET r == get_next_rotation_batch(st, BATCH_SIZE, disk, enron_len, order)
       IN  /\ ~HasRaised(r)
           /\ batch' = r.batch
           /\ pulled' = r.pulled
           /\ st' = [st EXCEPT !.source_progress = r.progress]
  /\ pc' = "batched"
  /\ UNCHANGED <<disk, enron_len, file, exit, killedAt, loaded, new_emails, outputs>>
  /\ UNCHANGED nonRotVars

\* the complete document json.dump produces for a state
Dump(state) == [exists |-> TRUE, content |-> [k \in 1..NumFields |-> FieldValue(state, k)]]

\* a tracking step that checkpoints the state file as it goes
Track_checkpoint ==
  /\ pc = "batched"
  /\ LET r == TrackUnique(batch, [hashes |-> st.processed_hashes, new_emails |-> 0])
     IN  /\ st' = [st EXCEPT !.processed_hashes = r.hashes]
         /\ new_emails' = r.new_emails
         /\ file' = Dump([st EXCEPT !.processed_hashes = r.hashes])
  /\ pc' = "tracked"
  /\ UNCHANGED <<disk, enron_len, exit, killedAt, loaded, batch, pulled, outputs>>
  /\ UNCHANGED nonRotVars

\* the loop over the batch that fills processed_hashes and counts new_emails
Track ==
  /\ pc = "batched"
  /\ LET r == TrackUnique(batch, [hashes |-> st.processed_hashes, new_emails |-> 0])
     IN  /\ st' = [st EXCEPT !.processed_hashes = r.hashes]
         /\ new_emails' = r.new_emails
  /\ pc' = "tracked"
  /\ UNCHANGED <<disk, enron_len, file, exit, killedAt, loaded, batch, pulled, outputs>>
  /\ UNCHANGED nonRotVars

\* a record step that starts the history over with the entry of this rotation
Record_rewrite ==
  /\ pc = "tracked"
  /\ st' = [st EXCEPT
              !.aggregate_metrics.total_processed = @ + Len(batch),
              !.run_history = <<[rotation   |-> st.rotation_number,
                                 batch_size |-> Len(batch),
                                 new_emails |-> new_emails]>>]
  /\ pc' = "recorded"
  /\ UNCHANGED <<disk, enron_len, file, exit, killedAt, loaded, batch, pulled, new_emails, outputs>>
  /\ UNCHANGED nonRotVars

\* a record step that counts the capacity of the batch instead of its length
Record_capacity ==
  /\ pc = "tracked"
  /\ st' = [st EXCEPT
              !.aggregate_metrics.total_processed = @ + BATCH_SIZE,
              !.run_history = Append(@, [rotation   |-> st.rotation_number,
                                         batch_size |-> Len(batch),
                                         new_emails |-> new_emails])]
  /\ pc' = "recorded"
  /\ UNCHANGED <<disk, enron_len, file, exit, killedAt, loaded, batch, pulled, new_emails, outputs>>
  /\ UNCHANGED nonRotVars

\* the update of aggregate_metrics and the append to run_history
Record ==
  /\ pc = "tracked"
  /\ st' = [st EXCEPT
              !.aggregate_metrics.total_processed = @ + Len(batch),
              !.run_history = Append(@, [rotation   |-> st.rotation_number,
                                         batch_size |-> Len(batch),
                                         new_emails |-> new_emails])]
  /\ pc' = "recorded"
  /\ UNCHANGED <<disk, enron_len, file, exit, killedAt, loaded, batch, pulled, new_emails, outputs>>
  /\ UNCHANGED nonRotVars

\* save_state: open(STATE_FILE, 'w') creates or truncates the file
SaveOpen ==
  /\ pc = "recorded"
  /\ file' = [exists |-> TRUE, content |-> <<>>]
  /\ pc' = "saving"
  /\ UNCHANGED <<disk, enron_len, exit, killedAt, loaded, st, batch, pulled, new_emails, outputs>>
  /\ UNCHANGED nonRotVars

\* save_state: json.dump writes the document piece by piece; the last piece
\* completes it and the with block closes the file
SaveWrite ==
  /\ pc = "saving"
  /\ Len(file.content) < NumFields
  /\ file' = [file EXCEPT !.content = Append(@, FieldValue(st, Len(file.content) + 1))]
  /\ pc' = IF Len(file.content) + 1 = NumFields THEN "saved" ELSE "saving"
  /\ UNCHANGED <<disk, enron_len, exit, killedAt, loaded, st, batch, pulled, new_emails, outputs>>
  /\ UNCHANGED nonRotVars

\* the batch is scrubbed and written to rotation_batches/rotation_NNN.json,
\* the coverage report is printed and main() returns
Emit ==
  /\ pc = "saved"
  /\ outputs' = {o \in outputs : o.rotation # st.rotation_number}
                  \cup {[rotation |-> st.rotation_number, records |-> scrubbed_batch(batch)]}
  /\ pc' = "idle"
  /\ exit' = "ok"
  /\ Forget
  /\ UNCHANGED <<disk, enron_len, file, killedAt, loaded>>
  /\ UNCHANGED nonRotVars

\* the process is interrupted (SIGKILL, power loss) wherever it is
Kill ==
  /\ pc # "idle"
  /\ killedAt' = pc
  /\ exit' = "killed"
  /\ pc' = "idle"
  /\ Forget
  /\ UNCHANGED <<disk, enron_len, file, loaded, outputs>>
  /\ UNCHANGED nonRotVars

\* serialized invocations that all run to completion
Next ==
  \/ Load
  \/ GetBatch
  \/ Track
  \/ Record
  \/ SaveOpen
  \/ SaveWrite
  \/ Emit

Init == InitRotation(EnronLensFixed)

Spec == Init /\ [][Next]_vars

\* serialized invocations, each of which may be interrupted at any point
LoadK == Load /\ load_state(file).rotation_number < MaxKillRotations

NextKill ==
  \/ LoadK
  \/ LoadFail
  \/ GetBatch
  \/ Track
  \/ Record
  \/ SaveOpen
  \/ SaveWrite
  \/ Emit
  \/ Kill

InitKill == InitRotation(EnronLens)

SpecKill == InitKill /\ [][NextKill]_vars

(***************************************************************************)
(* Invocations in which a step of main() raises an exception.  main() has  *)
(* no try block around its steps, so the exception ends the process.       *)
(***************************************************************************)
\* invocations explored when steps can fail
MaxFailRotations == 3

\* get_next_rotation_batch raises out of main(): the enron file exists but
\* open() or json.load() fails on it
GetBatchFail ==
  /\ pc = "loaded"
  /\ enron_len = Unreadable
  /\ HasRaised(get_next_rotation_batch(st, BATCH_SIZE, disk, enron_len, <<>>))
  /\ pc' = "idle"
  /\ exit' = "batch_error"
  /\ killedAt' = "none"
  /\ Forget
  /\ UNCHANGED <<disk, enron_len, file, loaded, outputs>>
  /\ UNCHANGED nonRotVars

\* the failure handled and main() carrying on after it
SaveFail_swallowed ==
  /\ pc \in {"recorded", "saving"}
  /\ pc' = "saved"
  /\ UNCHANGED <<disk, enron_len, file, exit, killedAt, loaded, st, batch, pulled, new_emails, outputs>>
  /\ UNCHANGED nonRotVars

\* save_state raises out of main(): open(STATE_FILE, 'w') fails (the file is
\* left as it was) or a write of json.dump fails (the file is left incomplete)
SaveFail ==
  /\ pc \in {"recorded", "saving"}
  /\ pc' = "idle"
  /\ exit' = "save_error"
  /\ killedAt' = "none"
  /\ Forget
  /\ UNCHANGED <<disk, enron_len, file, loaded, outputs>>
  /\ UNCHANGED nonRotVars

LoadF == Load /\ load_state(file).rotation_number < MaxFailRotations

NextFail ==
  \/ LoadF
  \/ LoadFail
  \/ GetBatch
  \/ GetBatchFail
  \/ Track
  \/ Record
  \/ SaveOpen
  \/ SaveWrite
  \/ SaveFail
  \/ Emit

InitFail == InitRotation(EnronLensFixed \cup {Unreadable})

SpecFail == InitFail /\ [][NextFail]_vars

(***************************************************************************)
(* A second invocation of main() that runs against the same state file     *)
(* while the first one runs or between two of its runs.  Each process has  *)
(* its own state dict; they share STATE_FILE and rotation_batches/.  The   *)
(* second invocation runs its save_state at a time when the first one is   *)
(* not inside save_state.                                                  *)
(***************************************************************************)
\* runs of the first invocation that are explored next to a second one
MaxConcRotations == 2

\* a save that re-reads the file and adds its own rotation on top of it
save_state_merged(state, f) ==
  Dump([state EXCEPT
          !.rotation_number = load_state(f).rotation_number + 1,
          !.run_history = Append(load_state(f).run_history, state.run_history[Len(state.run_history)])])

\* the state file after save_state(state) has run to completion on file f:
\* open(STATE_FILE, 'w') drops what f held, json.dump writes state
save_state(state, f) == Dump(state)

\* state = load_state(); state['rotation_number'] += 1
LoadB ==
  /\ pcB = "idle" /\ exitB = "none"
  /\ file.exists => Parses(file)
  /\ loadedB' = load_state(file)
  /\ stB' = [load_state(file) EXCEPT !.rotation_number = @ + 1]
  /\ pcB' = "loaded"
  /\ UNCHANGED <<exitB, batchB, new_emailsB>>
  /\ UNCHANGED <<rotVars, scrubVars, fields, enronVars>>

\* json.load raises on the file the first invocation is still writing
LoadFailB ==
  /\ pcB = "idle" /\ exitB = "none"
  /\ file.exists /\ ~Parses(file)
  /\ pcB' = "done"
  /\ exitB' = "error"
  /\ UNCHANGED <<loadedB, stB, batchB, new_emailsB>>
  /\ UNCHANGED <<rotVars, scrubVars, fields, enronVars>>

\* batch = get_next_rotation_batch(state, BATCH_SIZE)
GetBatchB ==
  /\ pcB = "loaded"
  /\ \E order \in Permutations(1..(IF enron_len = Missing THEN 0 ELSE enron_len \div 10)) :
       LET r == get_next_rotation_batch(stB, BATCH_SIZE, disk, enron_len, order)
       IN  /\ batchB' = r.batch
           /\ stB' = [stB EXCEPT !.source_progress = r.progress]
  /\ pcB' = "batched"
  /\ UNCHANGED <<exitB, loadedB, new_emailsB>>
  /\ UNCHANGED <<rotVars, scrubVars, fields, enronVars>>

\* the loop over the batch that fills processed_hashes and counts new_emails
TrackB ==
  /\ pcB = "batched"
  /\ LET r == TrackUnique(batchB, [hashes |-> stB.processed_hashes, new_emails |-> 0])
     IN  /\ stB' = [stB EXCEPT !.processed_hashes = r.hashes]
         /\ new_emailsB' = r.new_emails
  /\ pcB' = "tracked"
  /\ UNCHANGED <<exitB, loadedB, batchB>>
  /\ UNCHANGED <<rotVars, scrubVars, fields, enronVars>>

\* the update of aggregate_metrics and the append to run_history
RecordB ==
  /\ pcB = "tracked"
  /\ stB' = [stB EXCEPT
               !.aggregate_metrics.total_processed = @ + Len(batchB),
               !.run_history = Append(@, [rotation   |-> stB.rotation_number,
                                          batch_size |-> Len(batchB),
                                          new_emails |-> new_emailsB])]
  /\ pcB' = "recorded"
  /\ UNCHANGED <<exitB, loadedB, batchB, new_emailsB>>
  /\ UNCHANGED <<rotVars, scrubVars, fields, enronVars>>

\* save_state(state), from open to close
SaveB ==
  /\ pcB = "recorded"
  /\ pc # "saving"
  /\ file' = save_state(stB, file)
  /\ pcB' = "saved"
  /\ UNCHANGED <<exitB, loadedB, stB, batchB, new_emailsB>>
  /\ UNCHANGED <<disk, enron_len, pc, exit, killedAt, loaded, st, batch, pulled, new_emails, outputs>>
  /\ UNCHANGED <<scrubVars, fields, enronVars>>

\* the batch is scrubbed and written to rotation_batches/rotation_NNN.json and
\* main() returns; stB and batchB keep the values the invocation ended with
EmitB ==
  /\ pcB = "saved"
  /\ outputs' = {o \in outputs : o.rotation # stB.rotation_number}
                  \cup {[rotation |-> stB.rotation_number, records |-> scrubbed_batch(batchB)]}
  /\ pcB' = "done"
  /\ exitB' = "ok"
  /\ UNCHANGED <<loadedB, stB, batchB, new_emailsB>>
  /\ UNCHANGED <<disk, enron_len, file, pc, exit, killedAt, loaded, st, batch, pulled, new_emails>>
  /\ UNCHANGED <<scrubVars, fields, enronVars>>

\* the first invocation is started only as long as the second one has not been
LoadC ==
  /\ Load
  /\ pcB = "idle" /\ exitB = "none"
  /\ load_state(file).rotation_number < MaxConcRotations

NextConc ==
  \/ LoadC
  \/ GetBatch
  \/ Track
  \/ Record
  \/ SaveOpen
  \/ SaveWrite
  \/ Emit
  \/ LoadB
  \/ LoadFailB
  \/ GetBatchB
  \/ TrackB
  \/ RecordB
  \/ SaveB
  \/ EmitB

InitConc == InitRotation(EnronLens)

SpecConc == InitConc /\ [][NextConc]_vars

(***************************************************************************)
(* Text and regular expressions.  A text is a sequence of one-character    *)
(* strings; a pattern is matched the way Python's re matches it: leftmost, *)
(* alternatives and repetitions tried in priority order with backtracking. *)
(***************************************************************************)
Digit == {"0", "1", "2", "3", "4", "5", "6", "7", "8", "9"}

LowerSeq == <<"a", "b", "c", "d", "e", "f", "g", "h", "i", "j", "k", "l", "m", "n", "o", "p", "q", "r", "s", "t", "u", "v", "w", "x", "y", "z">>

UpperSeq == <<"A", "B", "C", "D", "E", "F", "G", "H", "I", "J", "K", "L", "M", "N", "O", "P", "Q", "R", "S", "T", "U", "V", "W", "X", "Y", "Z">>

Lower == {LowerSeq[i] : i \in 1..26}

Upper == {UpperSeq[i] : i \in 1..26}

\* \w
WordChar == Lower \cup Upper \cup Digit \cup {"_"}

\* \s
Space == {" ", "\t", "\n"}

\* str.lower() of one character
LowerChar(c) == IF c \in Upper THEN LowerSeq[CHOOSE i \in 1..26 : UpperSeq[i] = c] ELSE c

\* str.lower()
LowerText(text) == [i \in 1..Len(text) |-> LowerChar(text[i])]

\* the value of an expression that is computed once and then used by name:
\* The({F(x) : x \in {e}}) is F(e)
The(S) == CHOOSE y \in S : TRUE

\* no upper bound on a repetition
Unbounded == 1000

Cls(set, min, max) == [t |-> "cls", set |-> set, min |-> min, max |-> max]

Lit(s) == [t |-> "lit", s |-> s, ic |-> FALSE]

\* a literal under re.IGNORECASE
LitI(s) == [t |-> "lit", s |-> s, ic |-> TRUE]

WB == [t |-> "wb"]

Cat(items) == [t |-> "seq", items |-> items]

Alt(items) == [t |-> "alt", items |-> items]

Opt(item) == [t |-> "opt", item |-> item]

\* \b at position pos (the number of characters before it)
IsBoundary(text, pos) ==
  LET before == pos >= 1 /\ text[pos] \in WordChar
      after  == pos < Len(text) /\ text[pos + 1] \in WordChar
  IN  before # after

\* the longest run of characters of a class from pos on, at most max long
RunLen(set, text, pos, max) ==
  LET limit == Min(max, Len(text) - pos)
  IN  CHOOSE n \in 0..limit :
        /\ \A i \in 1..n : text[pos + i] \in set
        /\ n = limit \/ text[pos + n + 1] \notin set

LitMatches(node, text, pos) ==
  /\ pos + Len(node.s) <= Len(text)
  /\ \A i \in 1..Len(node.s) :
       IF node.ic THEN LowerChar(text[pos + i]) = LowerChar(node.s[i])
       ELSE text[pos + i] = node.s[i]

\* the positions at which a match of node that starts at pos can end, in the
\* order in which the backtracking matcher tries them
RECURSIVE Ends(_, _, _)
RECURSIVE SeqEnds(_, _, _, _)
RECURSIVE AltEnds(_, _, _, _)
RECURSIVE EachEnd(_, _, _, _, _, _)
Ends(node, text, pos) ==
  CASE node.t = "cls" ->
         The({IF run < node.min THEN <<>>
              ELSE [i \in 1..(run - node.min + 1) |-> pos + run - i + 1] :
              run \in {RunLen(node.set, text, pos, node.max)}})
    [] node.t = "lit" -> IF LitMatches(node, text, pos) THEN <<pos + Len(node.s)>> ELSE <<>>
    [] node.t = "wb"  -> IF IsBoundary(text, pos) THEN <<pos>> ELSE <<>>
    [] node.t = "opt" -> Ends(node.item, text, pos) \o <<pos>>
    [] node.t = "alt" -> AltEnds(node.items, 1, text, pos)
    [] node.t = "seq" -> SeqEnds(node.items, 1, text, pos)

AltEnds(items, k, text, pos) ==
  IF k > Len(items) THEN <<>>
  ELSE Ends(items[k], text, pos) \o AltEnds(items, k + 1, text, pos)

SeqEnds(items, k, text, pos) ==
  IF k > Len(items) THEN <<pos>>
  ELSE The({EachEnd(items, k, text, ends, 1, Len(ends)) : ends \in {Ends(items[k], text, pos)}})

\* the ends of the rest of a sequence after each of ends[lo..hi], in order
EachEnd(items, k, text, ends, lo, hi) ==
  IF lo > hi THEN <<>>
  ELSE IF lo = hi THEN SeqEnds(items, k + 1, text, ends[lo])
  ELSE EachEnd(items, k, text, ends, lo, (lo + hi) \div 2)
         \o EachEnd(items, k, text, ends, ((lo + hi) \div 2) + 1, hi)

\* the end of the non-empty match of the pattern that starts at position p,
\* or -1 if there is none
MatchEnd(pattern, text, p) ==
  The({IF ends # <<>> /\ Head(ends) > p THEN Head(ends) ELSE -1 :
       ends \in {Ends(pattern, text, p)}})

\* the start of the leftmost match at or after pos, or -1
NextMatch(pattern, text, pos) ==
  The({IF starts = {} THEN -1 ELSE CHOOSE p \in starts : \A q \in starts : p <= q :
       starts \in {{p \in pos..(Len(text) - 1) : MatchEnd(pattern, text, p) # -1}}})

\* re.finditer: the text from pos on cut into matched and unmatched pieces,
\* left to right
RECURSIVE Pieces(_, _, _)
RECURSIVE PiecesFrom(_, _, _, _, _)
Pieces(pattern, text, pos) ==
  The({IF p = -1
       THEN IF pos >= Len(text) THEN <<>>
            ELSE <<[match |-> FALSE, s |-> SubSeq(text, pos + 1, Len(text))]>>
       ELSE The({PiecesFrom(pattern, text, pos, p, e) : e \in {MatchEnd(pattern, text, p)}}) :
       p \in {NextMatch(pattern, text, pos)}})

PiecesFrom(pattern, text, pos, p, e) ==
  (IF p > pos THEN <<[match |-> FALSE, s |-> SubSeq(text, pos + 1, p)]>> ELSE <<>>)
    \o <<[match |-> TRUE, s |-> SubSeq(text, p + 1, e)]>>
    \o Pieces(pattern, text, e)

RECURSIVE Join(_)
Join(parts) == IF parts = <<>> THEN <<>> ELSE Head(parts) \o Join(Tail(parts))

\* pattern.sub(repl, text); repl maps each matched text to its replacement
Sub(pattern, repl, text) ==
  The({Join([i \in 1..Len(ps) |-> IF ps[i].match THEN repl[ps[i].s] ELSE ps[i].s]) :
       ps \in {Pieces(pattern, text, 0)}})

\* the number of substitutions pattern.sub makes
CountMatches(pattern, text) ==
  The({Cardinality({i \in 1..Len(ps) : ps[i].match}) : ps \in {Pieces(pattern, text, 0)}})

\* the matched pieces of a pattern in a text
Matched(pattern, text) ==
  The({{ps[i].s : i \in {j \in 1..Len(ps) : ps[j].match}} : ps \in {Pieces(pattern, text, 0)}})

(***************************************************************************)
(* The PII patterns (PII_PATTERNS and NAME_PATTERN of                      *)
(* scrub_personal_emails.py, PATTERNS of scrub_enron_pii.py).              *)
(***************************************************************************)
Letters == Lower \cup Upper

Sep == {"-", ".", " ", "\t", "\n"}

\* \b[A-Za-z0-9._%+-]+@[A-Za-z0-9.-]+\.[A-Z|a-z]{2,}\b
PAT_email ==
  Cat(<<WB, Cls(Letters \cup Digit \cup {".", "_", "%", "+", "-"}, 1, Unbounded),
        Lit(<<"@">>), Cls(Letters \cup Digit \cup {".", "-"}, 1, Unbounded),
        Lit(<<".">>), Cls(Letters \cup {"|"}, 2, Unbounded), WB>>)

\* a phone pattern whose middle group also takes two digits
PAT_phone_loose ==
  Cat(<<Opt(Cat(<<Lit(<<"+">>), Cls(Digit, 1, 3), Cls(Sep, 0, 1)>>)),
        Cls({"("}, 0, 1), Cls(Digit, 3, 3), Cls({")"}, 0, 1), Cls(Sep, 0, 1),
        Cls(Digit, 2, 3), Cls(Sep, 0, 1), Cls(Digit, 4, 4), WB>>)

\* (\+\d{1,3}[-.\s]?)?\(?\d{3}\)?[-.\s]?\d{3}[-.\s]?\d{4}\b
PAT_phone ==
  Cat(<<Opt(Cat(<<Lit(<<"+">>), Cls(Digit, 1, 3), Cls(Sep, 0, 1)>>)),
        Cls({"("}, 0, 1), Cls(Digit, 3, 3), Cls({")"}, 0, 1), Cls(Sep, 0, 1),
        Cls(Digit, 3, 3), Cls(Sep, 0, 1), Cls(Digit, 4, 4), WB>>)

\* \b\d{3}-\d{2}-\d{4}\b
PAT_ssn ==
  Cat(<<WB, Cls(Digit, 3, 3), Lit(<<"-">>), Cls(Digit, 2, 2), Lit(<<"-">>), Cls(Digit, 4, 4), WB>>)

\* \b\d{4}[-\s]?\d{4}[-\s]?\d{4}[-\s]?\d{4}\b
PAT_credit_card ==
  Cat(<<WB, Cls(Digit, 4, 4), Cls({"-"} \cup Space, 0, 1), Cls(Digit, 4, 4),
        Cls({"-"} \cup Space, 0, 1), Cls(Digit, 4, 4), Cls({"-"} \cup Space, 0, 1),
        Cls(Digit, 4, 4), WB>>)

\* \b\d{1,3}\.\d{1,3}\.\d{1,3}\.\d{1,3}\b
PAT_ip_address ==
  Cat(<<WB, Cls(Digit, 1, 3), Lit(<<".">>), Cls(Digit, 1, 3), Lit(<<".">>),
        Cls(Digit, 1, 3), Lit(<<".">>), Cls(Digit, 1, 3), WB>>)

\* \b\d{1,5}\s+[\w\s]+(?:street|st|avenue|ave|road|rd|boulevard|blvd|drive|dr|lane|ln|way|court|ct|place|pl)\b
PAT_street_address ==
  Cat(<<WB, Cls(Digit, 1, 5), Cls(Space, 1, Unbounded), Cls(WordChar \cup Space, 1, Unbounded),
        Alt(<<LitI(<<"s", "t", "r", "e", "e", "t">>), LitI(<<"s", "t">>), LitI(<<"a", "v", "e", "n", "u", "e">>), LitI(<<"a", "v", "e">>), LitI(<<"r", "o", "a", "d">>),
              LitI(<<"r", "d">>), LitI(<<"b", "o", "u", "l", "e", "v", "a", "r", "d">>), LitI(<<"b", "l", "v", "d">>), LitI(<<"d", "r", "i", "v", "e">>), LitI(<<"d", "r">>),
              LitI(<<"l", "a", "n", "e">>), LitI(<<"l", "n">>), LitI(<<"w", "a", "y">>), LitI(<<"c", "o", "u", "r", "t">>), LitI(<<"c", "t">>),
              LitI(<<"p", "l", "a", "c", "e">>), LitI(<<"p", "l">>)>>),
        WB>>)

\* (Mr\.|Mrs\.|Ms\.|Dr\.|Prof\.)
PAT_title == Alt(<<Lit(<<"M", "r", ".">>), Lit(<<"M", "r", "s", ".">>), Lit(<<"M", "s", ".">>), Lit(<<"D", "r", ".">>), Lit(<<"P", "r", "o", "f", ".">>)>>)

\* \b(Mr\.|Mrs\.|Ms\.|Dr\.|Prof\.)\s+[A-Z][a-z]+(\s+[A-Z][a-z]+)?\b
PAT_title_name ==
  Cat(<<WB, PAT_title, Cls(Space, 1, Unbounded), Cls(Upper, 1, 1), Cls(Lower, 1, Unbounded),
        Opt(Cat(<<Cls(Space, 1, Unbounded), Cls(Upper, 1, 1), Cls(Lower, 1, Unbounded)>>)),
        WB>>)

ExecName(first, last) == Cat(<<LitI(first), Cls(Space, 1, Unbounded), LitI(last)>>)

\* \b(Kenneth\s+Lay|Ken\s+Lay|...|Sherron\s+Watkins)\b, re.IGNORECASE
PAT_enron_executives ==
  Cat(<<WB,
        Alt(<<ExecName(<<"K", "e", "n", "n", "e", "t", "h">>, <<"L", "a", "y">>), ExecName(<<"K", "e", "n">>, <<"L", "a", "y">>),
              ExecName(<<"J", "e", "f", "f">>, <<"S", "k", "i", "l", "l", "i", "n", "g">>), ExecName(<<"J", "e", "f", "f", "r", "e", "y">>, <<"S", "k", "i", "l", "l", "i", "n", "g">>),
              ExecName(<<"A", "n", "d", "r", "e", "w">>, <<"F", "a", "s", "t", "o", "w">>), ExecName(<<"R", "e", "b", "e", "c", "c", "a">>, <<"M", "a", "r", "k">>),
              ExecName(<<"L", "o", "u">>, <<"P", "a", "i">>), ExecName(<<"C", "l", "i", "f", "f">>, <<"B", "a", "x", "t", "e", "r">>),
              ExecName(<<"M", "a", "r", "k">>, <<"F", "r", "e", "v", "e", "r", "t">>), ExecName(<<"R", "i", "c", "k">>, <<"B", "u", "y">>),
              ExecName(<<"R", "i", "c", "k">>, <<"C", "a", "u", "s", "e", "y">>), ExecName(<<"B", "e", "n">>, <<"G", "l", "i", "s", "a", "n">>),
              ExecName(<<"S", "h", "e", "r", "r", "o", "n">>, <<"W", "a", "t", "k", "i", "n", "s">>)>>),
        WB>>)

\* @(ect\.)?enron\.(com|net), re.IGNORECASE
PAT_enron_domain ==
  Cat(<<Lit(<<"@">>), Opt(LitI(<<"e", "c", "t", ".">>)), LitI(<<"e", "n", "r", "o", "n", ".">>), Alt(<<LitI(<<"c", "o", "m">>), LitI(<<"n", "e", "t">>)>>)>>)

(***************************************************************************)
(* Digests.  hashlib's md5 and sha256 are represented by deterministic     *)
(* fixed-width hexadecimal digests computed from the characters hashed.    *)
(***************************************************************************)
AllChars ==
  LowerSeq \o UpperSeq \o <<"0", "1", "2", "3", "4", "5", "6", "7", "8", "9">> \o <<"@", ".", "_", "%", "+", "-", "|", "(", ")", "[", "]", ",", " ", ":", "/">> \o <<"\t", "\n">>

CharCode(c) == CHOOSE i \in 1..Len(AllChars) : AllChars[i] = c

HexSeq == <<"0", "1", "2", "3", "4", "5", "6", "7", "8", "9", "a", "b", "c", "d", "e", "f">>

\* a * b modulo 65521, computed within 32 bits
MulMod(a, b) == ((((a * (b \div 256)) % 65521) * 256) + a * (b % 256)) % 65521

\* folding text[lo..hi] into h gives (m[1] * h + m[2]) % 65521
RECURSIVE FoldMap(_, _, _, _)
FoldMap(text, lo, hi, mult) ==
  IF lo = hi THEN <<mult, CharCode(text[lo])>>
  ELSE The({The({<<MulMod(l[1], r[1]), (MulMod(r[1], l[2]) + r[2]) % 65521>> :
                 r \in {FoldMap(text, ((lo + hi) \div 2) + 1, hi, mult)}}) :
            l \in {FoldMap(text, lo, (lo + hi) \div 2, mult)}})

\* h := (h * mult + code) % 65521 for each character of text in turn
Fold(text, h, mult) ==
  IF text = <<>> THEN h
  ELSE The({(MulMod(m[1], h) + m[2]) % 65521 : m \in {FoldMap(text, 1, Len(text), mult)}})

\* four hexadecimal digits of a number below 16^4
Hex4(n) ==
  <<HexSeq[((n \div 4096) % 16) + 1], HexSeq[((n \div 256) % 16) + 1],
    HexSeq[((n \div 16) % 16) + 1], HexSeq[(n % 16) + 1]>>

\* hashlib.md5(text.encode()).hexdigest(), its first 12 digits
md5_hexdigest(text) ==
  Hex4(Fold(text, 7, 31)) \o Hex4(Fold(text, 11, 131)) \o Hex4(Fold(text, 13, 257))

\* hashlib.sha256(text.encode()).hexdigest(), its first 12 digits
sha256_hexdigest(text) ==
  Hex4(Fold(text, 17, 37)) \o Hex4(Fold(text, 19, 137)) \o Hex4(Fold(text, 23, 263))

(***************************************************************************)
(* scrub_personal_emails.py                                                *)
(***************************************************************************)
\* a cache dict is a set of <<key, value>> pairs with distinct keys
CacheHas(cache, key) == \E e \in cache : e[1] = key

CacheGet(cache, key) == (CHOOSE e \in cache : e[1] = key)[2]

\* pseudonyms numbered in the order of the calls, without a look at the cache
generate_anonymous_email_numbered(original, cache) ==
  <<"u", "s", "e", "r", "_">> \o Hex4(Cardinality(cache)) \o <<"@", "e", "x", "a", "m", "p", "l", "e", ".", "c", "o", "m">>

\* generate_anonymous_email, the value it returns
generate_anonymous_email(original, cache) ==
  IF CacheHas(cache, LowerText(original))
  THEN CacheGet(cache, LowerText(original))
  ELSE <<"u", "s", "e", "r", "_">> \o Prefix(md5_hexdigest(LowerText(original)), 8) \o <<"@", "e", "x", "a", "m", "p", "l", "e", ".", "c", "o", "m">>

\* generate_anonymous_name, the value it returns
generate_anonymous_name(original, cache) ==
  IF CacheHas(cache, LowerText(original))
  THEN CacheGet(cache, LowerText(original))
  ELSE <<"[", "P", "E", "R", "S", "O", "N", "_">> \o Prefix(md5_hexdigest(LowerText(original)), 6) \o <<"]">>

\* the k-th substitution of scrub_pii of scrub_personal_emails.py
PersonalRule(k, text, ecache, ncache) ==
  LET anon   == [m \in Matched(PAT_email, text) |-> generate_anonymous_email(m, ecache)]
      phone  == [m \in Matched(PAT_phone, text) |-> <<"[", "P", "H", "O", "N", "E", "_", "R", "E", "D", "A", "C", "T", "E", "D", "]">>]
      ssn    == [m \in Matched(PAT_ssn, text) |-> <<"[", "S", "S", "N", "_", "R", "E", "D", "A", "C", "T", "E", "D", "]">>]
      card   == [m \in Matched(PAT_credit_card, text) |-> <<"[", "C", "A", "R", "D", "_", "R", "E", "D", "A", "C", "T", "E", "D", "]">>]
      ip     == [m \in Matched(PAT_ip_address, text) |-> <<"[", "I", "P", "_", "R", "E", "D", "A", "C", "T", "E", "D", "]">>]
      street == [m \in Matched(PAT_street_address, text) |-> <<"[", "A", "D", "D", "R", "E", "S", "S", "_", "R", "E", "D", "A", "C", "T", "E", "D", "]">>]
      name   == [m \in Matched(PAT_title_name, text) |-> generate_anonymous_name(m, ncache)]
  IN  CASE k = 1 -> Sub(PAT_email, anon, text)
        [] k = 2 -> Sub(PAT_phone, phone, text)
        [] k = 3 -> Sub(PAT_ssn, ssn, text)
        [] k = 4 -> Sub(PAT_credit_card, card, text)
        [] k = 5 -> Sub(PAT_ip_address, ip, text)
        [] k = 6 -> Sub(PAT_street_address, street, text)
        [] k = 7 -> Sub(PAT_title_name, name, text)

\* the substitutions k..last applied one after the other
RECURSIVE PersonalRun(_, _, _, _, _)
PersonalRun(k, last, text, ecache, ncache) ==
  IF k > last THEN text
  ELSE The({PersonalRun(k + 1, last, t, ecache, ncache) :
            t \in {PersonalRule(k, text, ecache, ncache)}})

\* scrub_pii of scrub_personal_emails.py, the text it returns
personal_scrub_pii(text, ecache, ncache) ==
  IF text = <<>> THEN text ELSE PersonalRun(1, 7, text, ecache, ncache)

\* email_cache after scrub_pii(text)
personal_email_cache(text, ecache) ==
  IF text = <<>> THEN ecache
  ELSE ecache \cup {<<LowerText(m), generate_anonymous_email(m, ecache)>> :
                      m \in Matched(PAT_email, text)}

\* name_cache after scrub_pii(text)
personal_name_cache(text, ecache, ncache) ==
  IF text = <<>> THEN ncache
  ELSE ncache \cup {<<LowerText(m), generate_anonymous_name(m, ncache)>> :
                      m \in Matched(PAT_title_name, PersonalRun(1, 6, text, ecache, ncache))}

(***************************************************************************)
(* scrub_enron_pii.py                                                      *)
(***************************************************************************)
ANONYMIZATION_SALT == <<"z", "e", "r", "o", "-", "e", "n", "r", "o", "n", "-", "p", "i", "i", "-", "s", "a", "l", "t", "-", "2", "0", "2", "4">>

\* the characters after the last occurrence of c (the whole text if there is none)
RECURSIVE AfterLast(_, _)
AfterLast(text, c) ==
  IF \E i \in 1..Len(text) : text[i] = c
  THEN AfterLast(SubSeq(text, (CHOOSE i \in 1..Len(text) : text[i] = c) + 1, Len(text)), c)
  ELSE text

hash_email(email) ==
  LET hash_value == Prefix(sha256_hexdigest(LowerText(email) \o ANONYMIZATION_SALT), 8)
      domain == AfterLast(email, "@")
  IN  IF (\E i \in 1..Len(email) : email[i] = "@") /\ (\E i \in 1..Len(domain) : domain[i] = ".")
      THEN <<"u", "s", "e", "r", "_">> \o hash_value \o <<"@", "e", "x", "a", "m", "p", "l", "e", ".">> \o AfterLast(domain, ".")
      ELSE <<"u", "s", "e", "r", "_">> \o hash_value \o <<"@", "e", "x", "a", "m", "p", "l", "e", ".", "c", "o", "m">>

\* the title captured by group 1 of the title_name pattern
TitleOf(m) == SubSeq(m, 1, Head(Ends(PAT_title, m, 0)))

\* the pattern of the k-th substitution of scrub_pii of scrub_enron_pii.py
EnronPattern(k) ==
  CASE k = 1 -> PAT_email
    [] k = 2 -> PAT_phone
    [] k = 3 -> PAT_credit_card
    [] k = 4 -> PAT_ssn
    [] k = 5 -> PAT_title_name
    [] k = 6 -> PAT_enron_executives
    [] k = 7 -> PAT_enron_domain

\* the k-th substitution of scrub_pii of scrub_enron_pii.py
EnronRule(k, text) ==
  LET anon  == [m \in Matched(EnronPattern(1), text) |-> hash_email(m)]
      phone == [m \in Matched(EnronPattern(2), text) |-> <<"[", "P", "H", "O", "N", "E", "_", "R", "E", "D", "A", "C", "T", "E", "D", "]">>]
      card  == [m \in Matched(EnronPattern(3), text) |-> <<"[", "C", "A", "R", "D", "_", "R", "E", "D", "A", "C", "T", "E", "D", "]">>]
      ssn   == [m \in Matched(EnronPattern(4), text) |-> <<"[", "S", "S", "N", "_", "R", "E", "D", "A", "C", "T", "E", "D", "]">>]
      name  == [m \in Matched(EnronPattern(5), text) |-> TitleOf(m) \o <<" ", "[", "N", "A", "M", "E", "_", "R", "E", "D", "A", "C", "T", "E", "D", "]">>]
      exec  == [m \in Matched(EnronPattern(6), text) |-> <<"[", "E", "X", "E", "C", "U", "T", "I", "V", "E", "_", "R", "E", "D", "A", "C", "T", "E", "D", "]">>]
      dom   == [m \in Matched(EnronPattern(7), text) |-> <<"@", "e", "x", "a", "m", "p", "l", "e", ".", "c", "o", "m">>]
  IN  CASE k = 1 -> Sub(EnronPattern(1), anon, text)
        [] k = 2 -> Sub(EnronPattern(2), phone, text)
        [] k = 3 -> Sub(EnronPattern(3), card, text)
        [] k = 4 -> Sub(EnronPattern(4), ssn, text)
        [] k = 5 -> Sub(EnronPattern(5), name, text)
        [] k = 6 -> Sub(EnronPattern(6), exec, text)
        [] k = 7 -> Sub(EnronPattern(7), dom, text)

\* the substitutions k..7 applied one after the other; n[j] is the number of
\* matches the j-th substitution replaced
RECURSIVE EnronRun(_, _, _)
EnronRun(k, text, n) ==
  IF k > 7 THEN [text |-> text, n |-> n]
  ELSE The({EnronRun(k + 1, t, Append(n, CountMatches(EnronPattern(k), text))) :
            t \in {EnronRule(k, text)}})

\* the empty dict returned with an empty text
NoCounts == [k \in {} |-> 0]

\* scrub_pii of scrub_enron_pii.py: [text, counts]
enron_scrub_pii(text) ==
  IF text = <<>> THEN [text |-> text, counts |-> NoCounts]
  ELSE The({[text |-> r.text,
             counts |-> [emails |-> r.n[1], phones |-> r.n[2], credit_cards |-> r.n[3],
                         ssns |-> r.n[4], names |-> r.n[5] + r.n[6]]] :
            r \in {EnronRun(1, text, <<>>)}})

(***************************************************************************)
(* A run of a scrubber: scrub_pii is applied to an input text and then     *)
(* again to its own output.                                                *)
(***************************************************************************)
Fragments ==
  { <<>>,
    <<"h", "e", "l", "l", "o">>,
    <<"j", "a", "n", "e", ".", "d", "o", "e", "@", "c", "o", "r", "p", ".", "c", "o", "m">>,
    <<"x", "@", "Y", ".", "O", "R", "G">>,
    <<"x", "@", "y", ".", "o", "r", "g">>,
    <<"b", "o", "b", "@", "e", "n", "r", "o", "n", ".", "c", "o", "m">>,
    <<"5", "5", "5", "-", "1", "2", "3", "-", "4", "5", "6", "7">>,
    <<"1", "2", "3", "-", "4", "5", "-", "6", "7", "8", "9">>,
    <<"4", "1", "1", "1", " ", "1", "1", "1", "1", " ", "1", "1", "1", "1", " ", "1", "1", "1", "1">>,
    <<"1", "0", ".", "0", ".", "0", ".", "1">>,
    <<"1", "2", " ", "M", "a", "i", "n", " ", "S", "t">>,
    <<"D", "r", ".", " ", "J", "o", "h", "n", " ", "S", "m", "i", "t", "h">>,
    <<"D", "r", ".", " ", "K", "e", "n", " ", "L", "a", "y">>,
    <<"K", "e", "n", " ", "L", "a", "y">>,
    <<"C", "o", "n", "t", "a", "c", "t", " ", "J", "a", "n", "e", " ", "a", "t", " ", "j", "a", "n", "e", ".", "d", "o", "e", "@", "c", "o", "r", "p", ".", "c", "o", "m", " ", "o", "r", " ", "5", "5", "5", "-", "1", "2", "3", "-", "4", "5", "6", "7", ",", " ", "S", "S", "N", " ", "1", "2", "3", "-", "4", "5", "-", "6", "7", "8", "9">> }

\* the texts made of at most n fragments separated by single spaces
RECURSIVE Texts(_)
Texts(n) ==
  IF n <= 1 THEN Fragments
  ELSE Texts(n - 1) \cup {t \o <<" ">> \o f : t \in Texts(n - 1) \ {<<>>}, f \in Fragments \ {<<>>}}

InitScrub ==
  /\ scrubber \in {"personal", "enron"}
  /\ text_in \in Texts(MaxFragments)
  /\ results = <<>>
  /\ counts = <<>>
  /\ email_cache = {}
  /\ name_cache = {}
  /\ fields = <<>>

\* the text the next pass is applied to
Current == IF results = <<>> THEN text_in ELSE results[Len(results)]

\* result = scrub_pii(text) of scrub_personal_emails.py, which returns no counts
ScrubPersonal ==
  /\ scrubber = "personal"
  /\ Len(results) < MaxPasses
  /\ results' = Append(results, personal_scrub_pii(Current, email_cache, name_cache))
  /\ counts' = Append(counts, NoCounts)
  /\ email_cache' = personal_email_cache(Current, email_cache)
  /\ name_cache' = personal_name_cache(Current, email_cache, name_cache)
  /\ UNCHANGED <<scrubber, text_in>>
  /\ UNCHANGED nonScrubVars

\* result, counts = scrub_pii(text) of scrub_enron_pii.py
ScrubEnron ==
  /\ scrubber = "enron"
  /\ Len(results) < MaxPasses
  /\ \E r \in {enron_scrub_pii(Current)} :
       /\ results' = Append(results, r.text)
       /\ counts' = Append(counts, r.counts)
  /\ UNCHANGED <<scrubber, text_in, email_cache, name_cache>>
  /\ UNCHANGED nonScrubVars

NextScrub ==
  \/ ScrubPersonal
  \/ ScrubEnron

\* the rotation runner at rest, before its first invocation
RotationAtRest ==
  /\ disk = [k \in SourceKeys |-> AbsentSource]
  /\ enron_len = Missing
  /\ file = NoFile
  /\ pc = "idle"
  /\ exit = "none"
  /\ killedAt = "none"
  /\ loaded = DefaultState
  /\ st = DefaultState
  /\ batch = <<>>
  /\ pulled = <<>>
  /\ new_emails = 0
  /\ outputs = {}
  /\ SecondAtRest

InitScrubRun == InitScrub /\ RotationAtRest /\ EnronAtRest

SpecScrub == InitScrubRun /\ [][NextScrub]_vars

(***************************************************************************)
(* A run that scrubs several fields one after the other, as main() of      *)
(* rotating_baseline.py does with the subject, from and body of each email *)
(* of a batch and process_email of scrub_enron_pii.py with the fields of   *)
(* an email; email_cache and name_cache live as long as the process.       *)
(***************************************************************************)
\* fields scrubbed in one run
MaxFields == 3

JaneAddress == <<"j", "a", "n", "e", ".", "d", "o", "e", "@", "c", "o", "r", "p", ".", "c", "o", "m">>

UpperAddress == <<"x", "@", "Y", ".", "O", "R", "G">>

LowerAddress == <<"x", "@", "y", ".", "o", "r", "g">>

ScenarioA == <<"C", "o", "n", "t", "a", "c", "t", " ", "J", "a", "n", "e", " ", "a", "t", " ", "j", "a", "n", "e", ".", "d", "o", "e", "@", "c", "o", "r", "p", ".", "c", "o", "m", " ", "o", "r", " ", "5", "5", "5", "-", "1", "2", "3", "-", "4", "5", "6", "7", ",", " ", "S", "S", "N", " ", "1", "2", "3", "-", "4", "5", "-", "6", "7", "8", "9">>

InitFields ==
  /\ scrubber \in {"personal", "enron"}
  /\ fields \in UNION {[1..n -> {JaneAddress, UpperAddress, LowerAddress, ScenarioA}] : n \in 1..MaxFields}
  /\ text_in = <<>>
  /\ results = <<>>
  /\ counts = <<>>
  /\ email_cache = {}
  /\ name_cache = {}
  /\ RotationAtRest
  /\ EnronAtRest

\* the field the next call of scrub_pii is given
NextField == fields[Len(results) + 1]

\* scrub_pii(email.get(...)) of scrub_personal_emails.py on the next field
ScrubPersonalField ==
  /\ scrubber = "personal"
  /\ Len(results) < Len(fields)
  /\ results' = Append(results, personal_scrub_pii(NextField, email_cache, name_cache))
  /\ counts' = Append(counts, NoCounts)
  /\ email_cache' = personal_email_cache(NextField, email_cache)
  /\ name_cache' = personal_name_cache(NextField, email_cache, name_cache)
  /\ UNCHANGED <<scrubber, text_in>>
  /\ UNCHANGED nonScrubVars

\* scrub_pii(...) of scrub_enron_pii.py on the next field
ScrubEnronField ==
  /\ scrubber = "enron"
  /\ Len(results) < Len(fields)
  /\ \E r \in {enron_scrub_pii(NextField)} :
       /\ results' = Append(results, r.text)
       /\ counts' = Append(counts, r.counts)
  /\ UNCHANGED <<scrubber, text_in, email_cache, name_cache>>
  /\ UNCHANGED nonScrubVars

NextFields ==
  \/ ScrubPersonalField
  \/ ScrubEnronField

SpecFields == InitFields /\ [][NextFields]_vars

(***************************************************************************)
(* main() of scrub_enron_pii.py: the CSV is read row by row into chunks,    *)
(* each full chunk is handed to process_chunk, which parses, scrubs and    *)
(* writes its rows as the elements of one JSON array.                      *)
(***************************************************************************)
\* rows of the input CSV
MaxRows == 2
\* largest --chunk-size explored
MaxChunkSize == 2
\* largest --limit explored
MaxLimit == 2

\* an Optional value: <<>> is None, <<v>> is the value v
None == <<>>

\* the message column of a row: empty, or its headers and body
Messages ==
  {None} \cup {<<[from |-> f, subject |-> sub, body |-> <<"o", "k">>]>> :
                 f \in {<<>>, LowerAddress}, sub \in {<<>>, <<"h", "i">>}}

\* a row of the CSV; raises: handling the row raises an exception inside the
\* try block of process_chunk before anything is written for it
Rows ==
  {[message |-> m, raises |-> FALSE] : m \in Messages}
    \cup {[message |-> <<[from |-> LowerAddress, subject |-> <<"h", "i">>, body |-> <<"o", "k">>]>>,
           raises |-> TRUE]}

\* parse_email_message: None for an empty message, else the dict of its fields
parse_email_message(message) ==
  IF message = <<>> THEN None
  ELSE <<[from |-> message[1].from, subject |-> message[1].subject, body |-> message[1].body]>>

\* counts.get(key, 0)
GetCount(cnt, key) == IF key \in DOMAIN cnt THEN cnt[key] ELSE 0

\* a process_email that wants both the subject and the sender
process_email_strict(parsed, statistics) ==
  [email_data |-> IF parsed.subject = <<>> \/ parsed.from = <<>> THEN None
                  ELSE <<[subject |-> enron_scrub_pii(parsed.subject).text,
                          from |-> enron_scrub_pii(parsed.from).text,
                          body |-> enron_scrub_pii(parsed.body).text,
                          generated |-> FALSE, source |-> "enron_corpus"]>>,
   stats |-> statistics]

\* process_email: [email_data, stats], email_data None when the email is dropped
process_email(parsed, statistics) ==
  The({The({The({
    [email_data |->
       IF f.text = <<>> /\ sub.text = <<>> THEN None
       ELSE <<[subject |-> IF sub.text # <<>> THEN sub.text
                           ELSE <<"(", "N", "o", " ", "S", "u", "b", "j", "e", "c", "t", ")">>,
               from |-> IF f.text # <<>> THEN f.text
                        ELSE <<"u", "n", "k", "n", "o", "w", "n", "@", "e", "x", "a", "m", "p", "l", "e", ".", "c", "o", "m">>,
               body |-> IF b.text # <<>> THEN Prefix(b.text, 10000) ELSE <<>>,
               generated |-> FALSE,
               source |-> "enron_corpus"]>>,
     stats |->
       [statistics EXCEPT
          !.pii_scrubbed = [key \in DOMAIN @ |->
                              @[key] + GetCount(f.counts, key) + GetCount(sub.counts, key)
                                + GetCount(b.counts, key)],
          !.missing_subject = IF sub.text = <<>> THEN @ + 1 ELSE @,
          !.missing_from = IF f.text = <<>> THEN @ + 1 ELSE @,
          !.empty_body = IF b.text = <<>> THEN @ + 1 ELSE @]] :
    b \in {enron_scrub_pii(parsed.body)}}) :
    sub \in {enron_scrub_pii(parsed.subject)}}) :
    f \in {enron_scrub_pii(parsed.from)}})

\* what output_file.write puts in the file for one element: the prefix, if
\* any, and the element, which remembers the row it was written for
Written(prefix, row_number, email_data) ==
  (IF prefix THEN <<[t |-> ","]>> ELSE <<>>)
    \o <<[t |-> "element", row |-> row_number, data |-> email_data]>>

\* one iteration of the for loop of process_chunk;
\* acc = [out, processed, first_chunk, stats]
ProcessRow(acc, row) ==
  LET counted == [acc EXCEPT !.stats.total_rows = @ + 1]
  IN  IF row.raises THEN [counted EXCEPT !.stats.parse_errors = @ + 1]
      ELSE IF parse_email_message(row.message) = None THEN counted
      ELSE The({
             IF r.email_data = None THEN [counted EXCEPT !.stats = r.stats]
             ELSE [out |-> counted.out
                             \o Written(~(counted.first_chunk /\ counted.processed = 0),
                                        counted.stats.total_rows, r.email_data[1]),
                   processed |-> counted.processed + 1,
                   first_chunk |-> FALSE,
                   stats |-> [r.stats EXCEPT !.processed_emails = @ + 1]] :
             r \in {process_email(parse_email_message(row.message)[1], counted.stats)}})

RECURSIVE ChunkLoop(_, _)
ChunkLoop(todo, acc) ==
  IF todo = <<>> THEN acc
  ELSE The({ChunkLoop(Tail(todo), a) : a \in {ProcessRow(acc, Head(todo))}})

\* process_chunk(chunk, output_file, first_chunk): [out, processed, first_chunk, stats]
process_chunk(rows_of_chunk, out, first, statistics) ==
  ChunkLoop(rows_of_chunk, [out |-> out, processed |-> 0, first_chunk |-> first,
                            stats |-> statistics])

\* out_file.write('[')
EnronOpen ==
  /\ epc = "start"
  /\ out_file' = <<[t |-> "["]>>
  /\ epc' = "reading"
  /\ UNCHANGED <<rows, chunk_size, args_limit, rows_read, chunk, first_chunk, total_processed, stats>>
  /\ UNCHANGED nonEnronVars

\* one iteration of `for row in reader`
EnronReadRow ==
  /\ epc = "reading"
  /\ rows_read < Len(rows)
  /\ rows_read' = rows_read + 1
  /\ IF Len(chunk) + 1 >= chunk_size
     THEN \E r \in {process_chunk(Append(chunk, rows[rows_read + 1]), out_file,
                                  first_chunk /\ total_processed = 0, stats)} :
            /\ out_file' = r.out
            /\ stats' = r.stats
            /\ total_processed' = total_processed + r.processed
            /\ first_chunk' = FALSE
            /\ chunk' = <<>>
            /\ epc' = IF args_limit # 0 /\ r.stats.total_rows >= args_limit THEN "after_loop" ELSE "reading"
     ELSE /\ chunk' = Append(chunk, rows[rows_read + 1])
          /\ UNCHANGED <<out_file, stats, total_processed, first_chunk, epc>>
  /\ UNCHANGED <<rows, chunk_size, args_limit>>
  /\ UNCHANGED nonEnronVars

\* after the loop: the remaining rows are processed and the array is closed
EnronFinish ==
  /\ epc = "after_loop" \/ (epc = "reading" /\ rows_read = Len(rows))
  /\ \E r \in {IF chunk # <<>>
               THEN process_chunk(chunk, out_file, first_chunk /\ total_processed = 0, stats)
               ELSE [out |-> out_file, processed |-> 0, first_chunk |-> first_chunk,
                     stats |-> stats]} :
       /\ out_file' = Append(r.out, [t |-> "]"])
       /\ stats' = r.stats
       /\ total_processed' = total_processed + r.processed
  /\ epc' = "done"
  /\ UNCHANGED <<rows, chunk_size, args_limit, rows_read, chunk, first_chunk>>
  /\ UNCHANGED nonEnronVars

NextEnron ==
  \/ EnronOpen
  \/ EnronReadRow
  \/ EnronFinish

InitEnron ==
  /\ rows \in UNION {[1..n -> Rows] : n \in 0..MaxRows}
  /\ chunk_size \in 1..MaxChunkSize
  /\ args_limit \in 0..MaxLimit
  /\ epc = "start"
  /\ EnronLocals
  /\ ScrubAtRest
  /\ RotationAtRest

SpecEnron == InitEnron /\ [][NextEnron]_vars

(***************************************************************************)
(* Properties.                                                             *)
(***************************************************************************)
\* C1: scrubbing is idempotent: scrub_pii applied to the output of scrub_pii
\* returns that output unchanged; a substituted pseudonym is not replaced again.
C1_Idempotent == Len(results) >= 2 => results[2] = results[1]

\* the steps of main() that precede the call of save_state
BeforeSave == {"loaded", "batched", "tracked", "recorded"}

\* what the next invocation reads from the state file
Persisted == load_state(file)

SourceSize(source) ==
  IF source[1] = "enron"
  THEN IF enron_len \in {Missing, Unreadable} THEN 0 ELSE enron_len
  ELSE Len(disk[source_key(source)].items)

AllSources == {sources_order[i] : i \in 1..NumSources}

\* the records of the batch that were pulled from a source
Contributed(source) == Cardinality({j \in 1..Len(batch) : batch[j]._source = source[2]})

\* C2: an invocation that is interrupted before save_state is called leaves
\* the persisted state exactly as it loaded it (all-or-nothing rotation).
C2_AllOrNothing ==
  (pc \in BeforeSave \/ (exit = "killed" /\ killedAt \in BeforeSave))
    => /\ file.exists => Parses(file)
       /\ Persisted = loaded

\* an invocation was interrupted right before save_state, after it had
\* assembled and tracked a non-empty batch on top of an earlier rotation
C2_Witness ==
  /\ exit = "killed"
  /\ killedAt = "recorded"
  /\ file.exists
  /\ loaded.rotation_number >= 1
  /\ \E k \in SourceKeys : loaded.source_progress[k] > 0

\* C3: wherever an invocation is interrupted, save_state included, the state
\* file holds the complete pre-rotation or the complete post-rotation state.
C3_AtomicWrite ==
  exit = "killed"
    => /\ file.exists => Parses(file)
       /\ \/ Persisted = loaded
          \/ Persisted.rotation_number = loaded.rotation_number + 1

\* C4: over a rotation no source's persisted offset decreases (a missing key
\* counts as 0).
C4_CoverageMonotone ==
  (pc = "saved" \/ exit = "ok")
    => \A k \in SourceKeys :
         Progress(Persisted.source_progress, k) >= Progress(loaded.source_progress, k)

\* a rotation was persisted that moved an offset which was already positive
C4_Witness ==
  /\ pc = "saved"
  /\ \E k \in SourceKeys :
       /\ Progress(loaded.source_progress, k) > 0
       /\ Progress(Persisted.source_progress, k) > Progress(loaded.source_progress, k)

\* C5: new_emails of a rotation is the number of fingerprints the rotation
\* adds to processed_hashes; records with a known fingerprint add nothing.
C5_NoDoubleCounting ==
  pc \in {"tracked", "recorded", "saving", "saved"}
    => /\ st.processed_hashes =
            loaded.processed_hashes \cup {get_email_hash(batch[j]) : j \in 1..Len(batch)}
       /\ new_emails = Cardinality(st.processed_hashes \ loaded.processed_hashes)
       /\ new_emails =
            Cardinality({j \in 1..Len(batch) :
                           /\ get_email_hash(batch[j]) \notin loaded.processed_hashes
                           /\ \A i \in 1..(j - 1) :
                                get_email_hash(batch[i]) # get_email_hash(batch[j])})

\* a tracked batch with a record known from an earlier rotation
C5_Witness ==
  /\ pc = "tracked"
  /\ \E j \in 1..Len(batch) : get_email_hash(batch[j]) \in loaded.processed_hashes
  /\ new_emails >= 1
  /\ new_emails < Len(batch)

\* a tracked batch in which two records of the same batch share a fingerprint
C5_WitnessSameBatch ==
  /\ pc = "tracked"
  /\ \E i, j \in 1..Len(batch) :
       i < j /\ get_email_hash(batch[i]) = get_email_hash(batch[j])

\* estimate_total_emails() when the estimates are the actual sizes
EstimatedTotal ==
  LET RECURSIVE Sum(_)
      Sum(i) == IF i = 0 THEN 0 ELSE SourceSize(sources_order[i]) + Sum(i - 1)
  IN  Sum(NumSources)

\* ceil(estimated_total / batch_size)
RotationsForFull == (EstimatedTotal + BATCH_SIZE - 1) \div BATCH_SIZE

\* C6: after ceil(estimated_total / batch_size) rotations every configured
\* source has its persisted offset at or beyond its size.
C6_FullCoverage ==
  (pc = "idle" /\ exit = "ok" /\ Persisted.rotation_number >= RotationsForFull)
    => \A s \in AllSources :
         Progress(Persisted.source_progress, source_key(s)) >= SourceSize(s)

\* the first source of the effective order of a rotation
FirstSource(rotation) == rotated_sources(rotation)[1]

\* the history of completed rotations in the state file
PersistedHistory == IF file.exists /\ Parses(file) THEN Persisted.run_history ELSE <<>>

\* C7: in every window of len(sources_order) consecutive rotations every
\* configured source is first of the effective order exactly once.
C7_RotationFairness ==
  LET h == PersistedHistory
  IN  \A w \in 1..Len(h) :
        w + NumSources - 1 <= Len(h)
          => /\ \A i \in w..(w + NumSources - 2) : h[i + 1].rotation = h[i].rotation + 1
             /\ \A s \in AllSources :
                  Cardinality({i \in w..(w + NumSources - 1) :
                                 FirstSource(h[i].rotation) = s}) = 1

\* a history that holds a window which does not start at the first rotation
C7_Witness == Len(PersistedHistory) > NumSources

\* C8: the effective order is sources_order rotated left by rotation_number
\* mod len(sources_order), with rotation_number read after the increment; the
\* first invocation on a fresh state starts at the second configured source.
C8_EffectiveOrder ==
  pc \in {"batched", "tracked", "recorded"}
    => LET n == st.rotation_number
           eff == rotated_sources(n)
       IN  /\ n = loaded.rotation_number + 1
           /\ Len(eff) = NumSources
           /\ \A i \in 1..NumSources :
                eff[i] = sources_order[((i - 1 + (n % NumSources)) % NumSources) + 1]
           /\ Len(pulled) >= 1
           /\ \A j \in 1..Len(pulled) : pulled[j].source = eff[j]
           /\ loaded.rotation_number = 0 => pulled[1].source = <<"eml", "opened_emails">>

\* the first invocation on a fresh state has pulled its batch
C8_Witness ==
  /\ pc = "batched"
  /\ ~file.exists
  /\ st.rotation_number = 1
  /\ Len(batch) > 0

\* a later invocation whose rotation number has wrapped around the source list
C8_WitnessWrapped ==
  /\ pc = "batched"
  /\ st.rotation_number = NumSources + 1
  /\ pulled[1].source = <<"eml", "opened_emails">>

\* C9: in a rotation every source's offset advances by exactly the number of
\* records the source contributed to the batch.
C9_AdvanceIsContribution ==
  pc = "batched"
    => \A s \in AllSources :
         Progress(st.source_progress, source_key(s))
           - Progress(loaded.source_progress, source_key(s)) = Contributed(s)

\* a source still holds records at or after its offset
HasUnread(s) == Progress(st.source_progress, source_key(s)) < SourceSize(s)

\* C10: a rotation never ends with fewer than batch_size records in the batch
\* while some source still has unread records at its offset.
C10_StopsOnlyWhenFullOrExhausted ==
  pc = "batched" => (Len(batch) >= BATCH_SIZE \/ \A s \in AllSources : ~HasUnread(s))

\* C11: a source that returns fewer records than were requested of it is
\* followed, in the same rotation, by the next source of the effective order,
\* which is asked for the remaining capacity only.
C11_ContinuesAfterExhausted ==
  pc = "batched"
    => \A j \in 1..Len(pulled) :
         (pulled[j].returned < pulled[j].requested /\ j < NumSources)
           => /\ Len(pulled) > j
              /\ pulled[j + 1].source = rotated_sources(st.rotation_number)[j + 1]
              /\ pulled[j + 1].requested = pulled[j].requested - pulled[j].returned

\* the first invocation has persisted the state of its latest run
SavedA == pc = "saved" \/ (pc = "idle" /\ exit = "ok")

\* the second invocation has persisted its state
SavedB == pcB \in {"saved", "done"} /\ exitB # "error"

C12_WitnessSerialized ==
  /\ SavedA /\ SavedB
  /\ loadedB # loaded
  /\ Persisted.rotation_number = 3

\* C13: when save_state fails the invocation ends with the error, and no batch
\* file is written for the rotation: a batch file exists only for rotations
\* whose state was persisted.
C13_PersistFailureIsFatal ==
  /\ exit = "save_error"
       => /\ pc = "idle"
          /\ \A o \in outputs : o.rotation # loaded.rotation_number + 1
  /\ outputs # {} => file.exists
  /\ (file.exists /\ Parses(file))
       => \A o \in outputs : o.rotation <= Persisted.rotation_number

\* save_state failed in an invocation that followed a completed rotation
C13_Witness ==
  /\ exit = "save_error"
  /\ outputs # {}
  /\ loaded.rotation_number >= 1

\* a file or directory that is not there, or an enron file that cannot be read
Unavailable(source) ==
  IF source[1] = "enron"
  THEN enron_len \in {Missing, Unreadable}
  ELSE ~disk[source_key(source)].exists

\* C20: a missing or unreadable source contributes no record, keeps its
\* offset, and the sources after it are still pulled in the same rotation.
C20_UnavailableSourceSkipped ==
  /\ exit # "batch_error"
  /\ pc = "batched"
       => \A j \in 1..Len(pulled) :
            Unavailable(pulled[j].source)
              => /\ pulled[j].returned = 0
                 /\ Contributed(pulled[j].source) = 0
                 /\ Progress(st.source_progress, source_key(pulled[j].source)) = pulled[j].offset
                 /\ j < NumSources
                      => /\ Len(pulled) > j
                         /\ pulled[j + 1].requested = pulled[j].requested

\* C14: an invocation increments rotation_number exactly once, and after k
\* completed serialized invocations (k batch files written, k entries of
\* run_history) the persisted rotation_number is k.
C14_RotationNumber ==
  /\ pc \in {"loaded", "batched", "tracked", "recorded", "saving", "saved"}
       => st.rotation_number = loaded.rotation_number + 1
  /\ pc = "idle"
       => /\ Persisted.rotation_number = Cardinality(outputs)
          /\ Persisted.rotation_number = Len(Persisted.run_history)
          /\ {o.rotation : o \in outputs} = 1..Persisted.rotation_number
          /\ Persisted.rotation_number >= loaded.rotation_number

\* several invocations have completed
C14_Witness ==
  /\ pc = "idle"
  /\ exit = "ok"
  /\ Persisted.rotation_number = 3
  /\ Cardinality(outputs) = 3

\* the text is one email address, matched as a whole by the address rule
IsAddress(text) == text # <<>> /\ MatchEnd(PAT_email, text, 0) = Len(text)

\* part occurs in text
Contains(text, part) ==
  \E i \in 0..(Len(text) - Len(part)) : SubSeq(text, i + 1, i + Len(part)) = part

\* C15: within one run the same email address is replaced by the same
\* pseudonym in every field, whatever was scrubbed in between.
C15_SamePseudonym ==
  /\ \A i, j \in 1..Len(results) :
       /\ fields[i] = fields[j] => results[i] = results[j]
       /\ (IsAddress(fields[i]) /\ fields[i] \in Matched(PAT_email, fields[j]))
            => Contains(results[j], results[i])
  /\ \A a, b \in email_cache : a[1] = b[1] => a = b

\* the same address was scrubbed before and after another address
C15_Witness ==
  /\ scrubber = "personal"
  /\ Len(results) = 3
  /\ fields[1] = JaneAddress
  /\ fields[2] = LowerAddress
  /\ fields[3] = ScenarioA
  /\ Cardinality(email_cache) = 2

\* C16: two addresses that are equal after case-folding are replaced by
\* byte-identical pseudonyms.
C16_CaseFolded ==
  \A i, j \in 1..Len(results) :
    (IsAddress(fields[i]) /\ IsAddress(fields[j]) /\ LowerText(fields[i]) = LowerText(fields[j]))
      => results[i] = results[j]

\* C17: the pseudonym of an address ends with the top-level domain of the
\* address, in both scrubbers.
C17_TldPreserved ==
  \A i \in 1..Len(results) :
    IsAddress(fields[i])
      => LowerText(AfterLast(results[i], ".")) = LowerText(AfterLast(fields[i], "."))

\* C18: text matched by the titled-name rule that holds a listed executive's
\* name is replaced by the executive token, not by the titled-name replacement.
C18_ExecutivePriority ==
  (scrubber = "enron" /\ Len(results) >= 1
     /\ \E m \in Matched(PAT_title_name, text_in) : Matched(PAT_enron_executives, m) # {})
    => /\ Contains(results[1], <<"[", "E", "X", "E", "C", "U", "T", "I", "V", "E", "_", "R", "E", "D", "A", "C", "T", "E", "D", "]">>)
       /\ ~Contains(results[1], <<"[", "N", "A", "M", "E", "_", "R", "E", "D", "A", "C", "T", "E", "D", "]">>)

C19_WitnessPersonal ==
  /\ scrubber = "personal"
  /\ Len(results) >= 1
  /\ fields[1] = ScenarioA

\* the sum of a field of the entries of run_history
RECURSIVE SumOver(_, _)
SumOver(history, field) ==
  IF history = <<>> THEN 0 ELSE Head(history)[field] + SumOver(Tail(history), field)

\* C21: run_history is append-only: a rotation appends exactly one entry,
\* whose rotation field is the rotation number of the invocation, after the
\* entries it loaded, which it leaves as they were; the rotation fields of the
\* persisted history are strictly increasing.
C21_HistoryAppendOnly ==
  /\ pc \in {"recorded", "saving", "saved"}
       => /\ Len(st.run_history) = Len(loaded.run_history) + 1
          /\ SubSeq(st.run_history, 1, Len(loaded.run_history)) = loaded.run_history
          /\ st.run_history[Len(st.run_history)].rotation = st.rotation_number
          /\ st.run_history[Len(st.run_history)].batch_size = Len(batch)
  /\ pc \in {"loaded", "batched", "tracked"} => st.run_history = loaded.run_history
  /\ \A i \in 1..(Len(PersistedHistory) - 1) :
       PersistedHistory[i].rotation < PersistedHistory[i + 1].rotation
  /\ pc = "saved" => Persisted.run_history = st.run_history

\* a rotation has been persisted on top of a history of several entries
C21_Witness ==
  /\ pc = "saved"
  /\ Len(loaded.run_history) >= 2
  /\ Len(Persisted.run_history) = Len(loaded.run_history) + 1

\* the number of records the sources before the j-th pulled one returned
RECURSIVE ReturnedBefore(_, _)
ReturnedBefore(log, j) ==
  IF j <= 1 THEN 0 ELSE log[j - 1].returned + ReturnedBefore(log, j - 1)

\* C24: the batch never holds more than batch_size records, and every source
\* is asked for no more than the capacity that remains when its turn comes.
C24_BatchBounded ==
  /\ Len(batch) <= BATCH_SIZE
  /\ \A o \in outputs : Len(o.records) <= BATCH_SIZE
  /\ \A j \in 1..Len(pulled) :
       /\ pulled[j].requested >= 1
       /\ pulled[j].requested <= BATCH_SIZE - ReturnedBefore(pulled, j)
       /\ pulled[j].returned <= pulled[j].requested

\* the enron section holds more records than the capacity that was left
C24_Witness ==
  /\ pc = "batched"
  /\ enron_len \div 10 = 2
  /\ \E j \in 1..Len(pulled) :
       /\ pulled[j].source[1] = "enron"
       /\ pulled[j].requested = 1
       /\ pulled[j].returned = 1
  /\ Len(batch) = BATCH_SIZE

\* the record at 0-based position i of a source is in a written batch file
Emitted(source, i) ==
  \E o \in outputs : \E j \in 1..Len(o.records) :
    /\ o.records[j].source = source[2]
    /\ o.records[j].subject = Scrubbed(EmailOf(Content(source[1], i)).subject)

\* C25: between invocations, every parsable record that the persisted offset
\* of its source has moved past is in a rotation batch file that was written.
C25_ConsumedIsEmitted ==
  (pc = "idle" /\ file.exists /\ Parses(file))
    => \A s \in OnDisk :
         \A i \in 0..(Progress(Persisted.source_progress, source_key(s)) - 1) :
           (i < Len(disk[source_key(s)].items) /\ disk[source_key(s)].items[i + 1])
             => Emitted(s, i)

\* C26: every message of an mbox file is placed in the batch of at most one
\* rotation.
C26_MboxDisjoint ==
  \A o1, o2 \in outputs :
    \A j1 \in 1..Len(o1.records), j2 \in 1..Len(o2.records) :
      (/\ \E s \in OnDisk : s[1] = "mbox" /\ s[2] = o1.records[j1].source
       /\ o1.records[j1].source = o2.records[j2].source
       /\ o1.records[j1].subject = o2.records[j2].subject)
        => (o1 = o2 /\ j1 = j2)

\* C29: in every persisted state total_processed is the sum of batch_size
\* over run_history and the number of fingerprints is the sum of new_emails
\* over run_history.
C29_CountersAgree ==
  (file.exists /\ Parses(file))
    => /\ Persisted.aggregate_metrics.total_processed = SumOver(Persisted.run_history, "batch_size")
       /\ Cardinality(Persisted.processed_hashes) = SumOver(Persisted.run_history, "new_emails")
       /\ Cardinality(Persisted.processed_hashes) <= Persisted.aggregate_metrics.total_processed

\* several rotations are persisted, one of which met records it knew
C29_Witness ==
  /\ pc = "saved"
  /\ Len(Persisted.run_history) >= 3
  /\ Cardinality(Persisted.processed_hashes) >= 2
  /\ Cardinality(Persisted.processed_hashes) < Persisted.aggregate_metrics.total_processed

\* the place of a source name in the effective order of a rotation
PlaceOf(source_name, rotation) ==
  CHOOSE k \in 1..NumSources : rotated_sources(rotation)[k][2] = source_name

\* C30: the batch is the records returned by the pulled sources, source after
\* source in the effective order, each tagged with the name of its source; the
\* batch file holds one record per record of the batch, in the same order.
C30_TaggedInOrder ==
  /\ pc \in {"batched", "tracked", "recorded", "saving", "saved"}
       => /\ Len(batch) = ReturnedBefore(pulled, Len(pulled) + 1)
          /\ \A j \in 1..Len(pulled) :
               \A n \in (ReturnedBefore(pulled, j) + 1)..ReturnedBefore(pulled, j + 1) :
                 /\ batch[n]._source = pulled[j].source[2]
                 /\ pulled[j].source = rotated_sources(st.rotation_number)[j]
          /\ scrubbed_batch(batch) =
               [n \in 1..Len(batch) |->
                  [subject |-> Scrubbed(batch[n].subject), from |-> Scrubbed(batch[n].from),
                   body |-> Scrubbed(batch[n].body), source |-> batch[n]._source]]
  /\ \A o \in outputs :
       /\ \A h \in 1..Len(PersistedHistory) :
            PersistedHistory[h].rotation = o.rotation
              => Len(o.records) = PersistedHistory[h].batch_size
       /\ \A a, b \in 1..Len(o.records) :
            a < b => PlaceOf(o.records[a].source, o.rotation) <= PlaceOf(o.records[b].source, o.rotation)

\* a written batch file whose records come from two sources
C30_Witness ==
  \E o \in outputs :
    /\ Len(o.records) = BATCH_SIZE
    /\ o.records[1].source # o.records[2].source

\* the rows process_chunk has been given so far
Handled == 1..stats.total_rows

\* an element was written to the output file for row n
WrittenFor(n) == \E k \in 1..Len(out_file) : out_file[k].t = "element" /\ out_file[k].row = n

\* the elements of the output file, in order
Elements == SelectSeq(out_file, LAMBDA piece : piece.t = "element")

\* C22: a parsed record is dropped exactly when its scrubbed subject and its
\* scrubbed sender are both empty, and every element that is written has a
\* non-empty subject and a non-empty from field.
C22_DroppedIffBothEmpty ==
  /\ \A n \in Handled :
       (~rows[n].raises /\ parse_email_message(rows[n].message) # None)
         => (WrittenFor(n) <=>
               ~(/\ enron_scrub_pii(rows[n].message[1].subject).text = <<>>
                 /\ enron_scrub_pii(rows[n].message[1].from).text = <<>>))
  /\ \A k \in 1..Len(Elements) :
       /\ Elements[k].data.subject # <<>>
       /\ Elements[k].data.from # <<>>
  /\ stats.processed_emails = Len(Elements)

\* a run that wrote a record without sender and dropped one with neither
\* subject nor sender
C22_Witness ==
  /\ epc = "done"
  /\ Len(rows) = 2
  /\ rows[1].message # None /\ rows[1].message[1].from = <<>> /\ WrittenFor(1)
  /\ rows[2].message # None /\ ~rows[2].raises /\ ~WrittenFor(2)
  /\ stats.total_rows = 2
  /\ stats.missing_from = 2
  /\ stats.missing_subject = 1

\* the files of an eml source that parse_eml returned None for, in the j-th pull
EmlFailures(j) == pulled[j].advanced - pulled[j].returned

\* C23: a record whose handling fails is skipped, the failure is counted in
\* an error counter, and the records after it are still processed: in
\* process_chunk of scrub_enron_pii.py and in the eml reader of the rotation
\* runner.
C23_FailureCountedAndSkipped ==
  /\ stats.parse_errors = Cardinality({n \in Handled : rows[n].raises})
  /\ \A n \in Handled : rows[n].raises => ~WrittenFor(n)
  /\ \A n \in Handled :
       (~rows[n].raises /\ rows[n].message # None /\ rows[n].message[1].subject # <<>>)
         => WrittenFor(n)
  /\ pc = "batched"
       => \A j \in 1..Len(pulled) :
            (pulled[j].source[1] = "eml" /\ EmlFailures(j) > 0)
              => /\ pulled[j].returned =
                      Cardinality({i \in pulled[j].offset..(pulled[j].offset + pulled[j].advanced - 1) :
                                     disk[source_key(pulled[j].source)].items[i + 1]})
                 /\ \E counter \in {"confidence_sum", "fallbacks"} :
                      st.aggregate_metrics[counter] - loaded.aggregate_metrics[counter]
                        = EmlFailures(j)

\* the pieces of a JSON array: "[", the elements with a "," between every
\* two of them, "]"
WellFormedArray(out) ==
  /\ Len(out) >= 2
  /\ out[1].t = "["
  /\ out[Len(out)].t = "]"
  /\ \A k \in 2..(Len(out) - 1) : out[k].t = (IF k % 2 = 0 THEN "element" ELSE ",")
  /\ Len(out) > 2 => out[Len(out) - 1].t = "element"

\* C27: the output is a well-formed JSON array for every input and every
\* chunk size: a comma is written before every element but the first one of
\* the run.
C27_WellFormedOutput == epc = "done" => WellFormedArray(out_file)

\* C28: with --limit N at most N rows are processed.
C28_LimitRespected == args_limit # 0 => stats.total_rows <= args_limit

====
